---- MODULE Spec2Model ----
(***************************************************************************)
(* Event bus over FreeRTOS task notifications (src/event_bus.c).           *)
(*                                                                         *)
(* State: the subscription table `events`, the indexed notification value  *)
(* of every task (the channel event_bus_push gives on and event_bus_wait   *)
(* takes from), and the position of every task inside event_bus_wait.      *)
(* event_bus_push is taken one access at a time: a step reads one slot,    *)
(* reads it again for the argument, calls the notification primitive, or   *)
(* yields and returns, and other tasks run between the steps. A blocking   *)
(* event_bus_wait is split where the scheduler suspends the caller.        *)
(***************************************************************************)
EXTENDS Integers, Sequences, FiniteSets, TLC

\* ---- program constants ----
EVENT_BUS_RESERVED == 0
EVENT_BUS_FRAME_BEGIN_SYNC == 1
EVENT_BUS_QTY == 5
EVENT_LIST_DEPHT == 5
NULL == 0

\* ---- bounds of the exploration ----
\* tasks 1..MaxWaiter subscribe, unsubscribe and wait in Spec and SpecLive
MaxWaiter == 2
\* tasks 1..MaxHandle subscribe in SpecCap
MaxHandle == 6
\* largest timeout, in ticks, passed to event_bus_wait
MaxTimeout == 2
\* number of API calls in one behaviour of Spec, SpecCap, SpecLive, SpecOne
MaxCalls == 3
MaxCapCalls == 7
MaxLiveCalls == 3
MaxOneCalls == 5
MaxNullCalls == 4
MaxRefillCalls == 8
MaxConcCalls == 3
MaxTabCalls == 4

AllEvents == 0..(EVENT_BUS_QTY - 1)
\* the events that are raised and subscribed to
Events == {EVENT_BUS_RESERVED, EVENT_BUS_FRAME_BEGIN_SYNC}
Slots == 0..(EVENT_LIST_DEPHT - 1)
Tasks == 1..(IF MaxHandle > MaxWaiter THEN MaxHandle ELSE MaxWaiter)
Waiters == 1..MaxWaiter
CapTasks == 1..MaxHandle
NullTasks == {NULL} \cup Waiters
Timeouts == {0, MaxTimeout}
\* the task that raises the events, and all tasks that call the API
Producer == MaxWaiter + 1
Callers == Waiters \cup {Producer}

VARIABLES
    events,   \* events[event][slot]: task handle or NULL
    notify,   \* notify[task][index]: ulNotifiedValue of the task at that index
    wait,     \* wait[task]: where the task is inside event_bus_wait
    last,     \* the API call that returned last, with what its caller observed
    unsub,    \* history: unsub[event][task], see event_bus_unsubscribe_ex
    pend,     \* history: pend[task][event], pushes not yet met by a wait
    prevk,    \* history: prevk[task][event], pend at the previous wait call
    since,    \* history: since[task][event], a push began after the last wait
    calls,    \* number of API calls made
    ntasks,   \* number of task handles that have appeared in a call
    proc      \* proc[caller]: position and locals of a call made step by step

vars == <<events, notify, wait, last, unsub, pend, prevk, since, calls, ntasks,
          proc>>

\* ------------------------------------------------------------------------
\* event_bus_modify_value: the first slot equal to old is overwritten by new
\* ------------------------------------------------------------------------
\* variants of the scan with one defect each
RECURSIVE modify_scan_wrap(_, _, _, _, _)
modify_scan_wrap(tab, event, old, new, i) ==
    IF i >= EVENT_LIST_DEPHT
    THEN [tab |-> [tab EXCEPT ![event][EVENT_LIST_DEPHT - 1] = new], ret |-> new]
    ELSE IF tab[event][i] = old
         THEN [tab |-> [tab EXCEPT ![event][i] = new], ret |-> new]
         ELSE modify_scan_wrap(tab, event, old, new, i + 1)

RECURSIVE modify_scan_fallback0(_, _, _, _, _)
modify_scan_fallback0(tab, event, old, new, i) ==
    IF i >= EVENT_LIST_DEPHT
    THEN [tab |-> [tab EXCEPT ![event][0] = new], ret |-> NULL]
    ELSE IF tab[event][i] = old
         THEN [tab |-> [tab EXCEPT ![event][i] = new], ret |-> new]
         ELSE modify_scan_fallback0(tab, event, old, new, i + 1)

\* variant with one defect: the scan goes on after a match
RECURSIVE modify_scan_noreturn(_, _, _, _, _)
modify_scan_noreturn(tab, event, old, new, i) ==
    IF i >= EVENT_LIST_DEPHT
    THEN [tab |-> tab, ret |-> IF \E j \in Slots : tab[event][j] = new /\ new # old
                               THEN new ELSE NULL]
    ELSE IF tab[event][i] = old
         THEN modify_scan_noreturn([tab EXCEPT ![event][i] = new],
                                   event, old, new, i + 1)
         ELSE modify_scan_noreturn(tab, event, old, new, i + 1)

\* variant with one defect: a match returns the position found, not new
RECURSIVE modify_scan_retslot(_, _, _, _, _)
modify_scan_retslot(tab, event, old, new, i) ==
    IF i >= EVENT_LIST_DEPHT
    THEN [tab |-> tab, ret |-> NULL]
    ELSE IF tab[event][i] = old
         THEN [tab |-> [tab EXCEPT ![event][i] = new], ret |-> i + 1]
         ELSE modify_scan_retslot(tab, event, old, new, i + 1)

\* variant with one defect: the slots are scanned from the highest index down
RECURSIVE modify_scan_downward(_, _, _, _, _)
modify_scan_downward(tab, event, old, new, i) ==
    IF i >= EVENT_LIST_DEPHT
    THEN [tab |-> tab, ret |-> NULL]
    ELSE IF tab[event][EVENT_LIST_DEPHT - 1 - i] = old
         THEN [tab |-> [tab EXCEPT ![event][EVENT_LIST_DEPHT - 1 - i] = new],
               ret |-> new]
         ELSE modify_scan_downward(tab, event, old, new, i + 1)

RECURSIVE modify_scan_retold(_, _, _, _, _)
modify_scan_retold(tab, event, old, new, i) ==
    IF i >= EVENT_LIST_DEPHT
    THEN [tab |-> tab, ret |-> NULL]
    ELSE IF tab[event][i] = old
         THEN [tab |-> [tab EXCEPT ![event][i] = new], ret |-> old]
         ELSE modify_scan_retold(tab, event, old, new, i + 1)

RECURSIVE modify_scan(_, _, _, _, _)
modify_scan(tab, event, old, new, i) ==
    IF i >= EVENT_LIST_DEPHT
    THEN [tab |-> tab, ret |-> NULL]
    ELSE IF tab[event][i] = old
         THEN [tab |-> [tab EXCEPT ![event][i] = new], ret |-> new]
         ELSE modify_scan(tab, event, old, new, i + 1)

event_bus_modify_value_swapped(tab, event, old, new) ==
    modify_scan(tab, event, new, old, 0)

event_bus_modify_value(tab, event, old, new) ==
    modify_scan(tab, event, old, new, 0)

\* ASSERT_POINTER(p) fires when p is NULL
ASSERT_POINTER(p) == p = NULL

\* number of slots of the event that hold the handle
SlotsOf(tab, event, h) == Cardinality({i \in Slots : tab[event][i] = h})
Subscribed(tab, event, h) == \E i \in Slots : tab[event][i] = h
Subscribers(tab, event) == {tab[event][i] : i \in Slots} \ {NULL}

Running == [st |-> "running", event |-> 0, index |-> 0, timeout |-> 0,
            elapsed |-> 0,
            pending |-> 0, k |-> 0, prevk |-> 0, since |-> FALSE,
            pushed |-> FALSE, signaled |-> FALSE, sub |-> FALSE]

\* a task outside every call. row, occ, nw and un0 are history of a push:
\* row is the slots of the event when the push began, occ[j] the set of
\* values slot j has held since then, nw the tasks that have not been inside
\* a wait on the event since then, un0 what the last subscribe or
\* unsubscribe call of each task on the event, when the push began, had been:
\* "single" and "multi" are an unsubscribe that found the task in at most
\* one slot and in more than one, "no" is a subscribe or no call at all
Idle ==
    [op |-> "idle", kind |-> "none", event |-> 0, old |-> NULL, new |-> NULL,
     i |-> 0, seen |-> NULL, arg |-> NULL, ret |-> NULL, gives |-> <<>>,
     row |-> [j \in Slots |-> NULL], occ |-> [j \in Slots |-> {}],
     nw |-> {}, un0 |-> [t \in Tasks |-> "no"]]

NoCall == [op |-> "none", event |-> 0, task |-> NULL, evth |-> NULL,
           found |-> FALSE, asserted |-> FALSE, result |-> "void",
           gives |-> <<>>, w |-> Running, p |-> Idle]

IsRunning(t) == wait[t].st = "running"

InCall(c) == proc[c].op \notin {"idle", "done"}

\* the record is a push of the event that has not returned
InPushOn(q, event) ==
    q.kind = "push" /\ q.op # "done" /\ q.event = event

\* the table has become tab2, as seen by the history of a push in progress
Observe(q, event, tab2) ==
    IF InPushOn(q, event)
    THEN [q EXCEPT !.occ = [j \in Slots |-> @[j] \cup {tab2[event][j]}]]
    ELSE q

\* a slot of the event was written during the push
Touched(p) == \E j \in Slots : Cardinality(p.occ[j]) > 1
\* the tasks that held one and the same slot during the whole push
Whole(p) == {t \in Tasks : \E j \in Slots : p.occ[j] = {t}}
\* the task held no slot of the event at any moment of the push
Absent(p, t) == \A j \in Slots : t \notin p.occ[j]

\* ------------------------------------------------------------------------
\* subscribe / unsubscribe as one step (the caller is not preempted inside
\* event_bus_modify_value; the steps of that function are taken one by one
\* in SpecConc).
\* The assertion is recorded in last.asserted and the behaviour goes on, so
\* that what the call left behind is part of the reachable states.
\* unsub[event][task] is "no" from a successful subscribe of the task on,
\* and from an unsubscribe on it tells whether the task held at most one slot
\* of the event ("single") or several ("multi") when the call was made.
\* ------------------------------------------------------------------------
UnsubAfterSubscribe(event, h_task, evth) ==
    IF h_task # NULL /\ evth # NULL
    THEN [unsub EXCEPT ![event][h_task] = "no"]
    ELSE unsub

UnsubAfterUnsubscribe(event, h_task) ==
    IF h_task # NULL
    THEN [unsub EXCEPT ![event][h_task] =
             IF SlotsOf(events, event, h_task) <= 1
             THEN "single" ELSE "multi"]
    ELSE unsub

subscribe_ex(op, event, h_task) ==
    LET r == event_bus_modify_value(events, event, NULL, h_task)
        evth == r.ret
    IN
    /\ events' = r.tab
    /\ last' = [NoCall EXCEPT !.op = op, !.event = event, !.task = h_task,
                              !.found = Subscribed(events, event, NULL),
                              !.evth = evth, !.asserted = ASSERT_POINTER(evth)]
    /\ unsub' = UnsubAfterSubscribe(event, h_task, evth)
    /\ proc' = [c \in Callers |-> Observe(proc[c], event, r.tab)]
    /\ UNCHANGED <<notify, wait, pend, prevk, since>>

\* variant with one defect: the pending notification is cleared as well
unsubscribe_ex_clearing(op, event, h_task) ==
    LET r == event_bus_modify_value(events, event, h_task, NULL) IN
    /\ events' = r.tab
    /\ last' = [NoCall EXCEPT !.op = op, !.event = event, !.task = h_task,
                              !.found = Subscribed(events, event, h_task),
                              !.evth = r.ret]
    /\ unsub' = UnsubAfterUnsubscribe(event, h_task)
    /\ proc' = [c \in Callers |-> Observe(proc[c], event, r.tab)]
    /\ notify' = IF h_task # NULL
                 THEN [notify EXCEPT ![h_task][event] = 0]
                 ELSE notify
    /\ UNCHANGED <<wait, pend, prevk, since>>

unsubscribe_ex(op, event, h_task) ==
    LET r == event_bus_modify_value(events, event, h_task, NULL) IN
    /\ events' = r.tab
    /\ last' = [NoCall EXCEPT !.op = op, !.event = event, !.task = h_task,
                              !.found = Subscribed(events, event, h_task),
                              !.evth = r.ret]
    /\ unsub' = UnsubAfterUnsubscribe(event, h_task)
    /\ proc' = [c \in Callers |-> Observe(proc[c], event, r.tab)]
    /\ UNCHANGED <<notify, wait, pend, prevk, since>>

event_bus_subscribe_ex(event, h_task) ==
    subscribe_ex("subscribe_ex", event, h_task)

event_bus_unsubscribe_ex(event, h_task) ==
    unsubscribe_ex("unsubscribe_ex", event, h_task)

\* h_task = xTaskGetCurrentTaskHandle(): the caller is a task that runs
event_bus_subscribe(self, event) ==
    /\ IsRunning(self)
    /\ ~InCall(self)
    /\ subscribe_ex("subscribe_ex", event, self)

event_bus_unsubscribe(self, event) ==
    /\ IsRunning(self)
    /\ ~InCall(self)
    /\ unsubscribe_ex("unsubscribe_ex", event, self)

\* ------------------------------------------------------------------------
\* push: for every slot, in ascending order, test the slot and give to its
\* handle; then portYIELD()
\* ------------------------------------------------------------------------
\* variants with one defect each
push_more_first(i) == FALSE

give_index_slot(event, i) == i

GiveValue_keep(value) == value

\* i < EVENT_LIST_DEPHT, the condition of the loop
push_more(i) == i < EVENT_LIST_DEPHT

\* the notification index of the give
give_index(event, i) == event

\* xTaskNotifyGiveIndexed: the value at the index is incremented
GiveValue(value) == value + 1

\* number of gives to the task on the index
Given(gs, t, index) ==
    Cardinality({j \in 1..Len(gs) : gs[j].task = t /\ gs[j].index = index})

push_call(event) ==
    /\ ~InCall(Producer)
    /\ proc' = [proc EXCEPT ![Producer] =
                   [Idle EXCEPT
                      !.op = "scan", !.kind = "push", !.event = event,
                      !.row = events[event],
                      !.occ = [j \in Slots |-> {events[event][j]}],
                      !.un0 = unsub[event],
                      !.nw = {t \in Waiters :
                                ~(wait[t].st # "running"
                                     /\ wait[t].event = event)}]]
    /\ wait' = [t \in Waiters |->
                  IF wait[t].st # "running" /\ wait[t].event = event
                  THEN [wait[t] EXCEPT !.pushed = TRUE] ELSE wait[t]]
    /\ since' = [t \in Waiters |-> [since[t] EXCEPT ![event] = TRUE]]
    /\ UNCHANGED <<events, notify, last, unsub, pend, prevk>>

\* ++i: the loop goes on with the next slot, or ends and the push is at
\* its portYIELD()
push_advance(p) ==
    proc' = [proc EXCEPT ![Producer] =
               IF push_more(p.i + 1)
               THEN [p EXCEPT !.op = "scan", !.i = p.i + 1]
               ELSE [p EXCEPT !.op = "yield"]]

\* if (events[event][i] != NULL): one read of the slot
push_test ==
    LET p == proc[Producer] IN
    /\ p.op = "scan"
    /\ IF events[p.event][p.i] # NULL
       THEN proc' = [proc EXCEPT ![Producer].op = "load",
                                 ![Producer].seen = events[p.event][p.i]]
       ELSE push_advance(p)
    /\ UNCHANGED <<events, notify, wait, last, unsub, pend, prevk, since,
                   calls, ntasks>>

\* the argument events[event][i] of the give: the value the test has read,
\* kept in a register, or the value of a second read of the slot. The table
\* is not volatile and not locked, so the build decides.
push_load ==
    LET p == proc[Producer] IN
    /\ p.op = "load"
    /\ \E v \in {p.seen, events[p.event][p.i]} :
          proc' = [proc EXCEPT ![Producer].op = "give", ![Producer].arg = v]
    /\ UNCHANGED <<events, notify, wait, last, unsub, pend, prevk, since,
                   calls, ntasks>>

\* xTaskNotifyGiveIndexed(arg, event): the value at the index is incremented
\* and a task suspended in a take on that index becomes ready. A give to
\* the null handle is undefined: the call returns with nothing changed, or
\* it never returns (the configASSERT of the kernel, or the fault of the
\* write through the null handle, stops the caller).
push_give ==
    LET p == proc[Producer]
        v == p.arg
        index == give_index(p.event, p.i)
        q == [p EXCEPT !.gives =
                Append(@, [task |-> v, index |-> index,
                           slot |-> p.i, seen |-> p.seen])]
    IN
    /\ p.op = "give"
    /\ IF v # NULL
       THEN /\ notify' = [notify EXCEPT ![v][index] = GiveValue(@)]
            /\ wait' = [t \in Waiters |->
                         IF t = v /\ wait[t].st # "running"
                            /\ wait[t].index = index
                         THEN [wait[t] EXCEPT
                                 !.signaled = TRUE,
                                 !.st = IF @ = "blocked" THEN "woken" ELSE @]
                         ELSE wait[t]]
            /\ push_advance(q)
       ELSE /\ UNCHANGED <<notify, wait>>
            /\ \/ push_advance(q)
               \/ proc' = [proc EXCEPT ![Producer] =
                              [q EXCEPT !.op = "trapped"]]
    /\ UNCHANGED <<events, last, unsub, pend, prevk, since, calls, ntasks>>

\* portYIELD(), during which other tasks run, and the return of
\* event_bus_push. pend counts the pushes that have returned and during
\* which the task held its slot and was not inside a wait on the event.
push_yield ==
    LET p == proc[Producer] IN
    /\ p.op = "yield"
    /\ proc' = [proc EXCEPT ![Producer].op = "done"]
    /\ last' = [NoCall EXCEPT
                  !.op = "push", !.event = p.event,
                  !.gives = [j \in 1..Len(p.gives) |->
                               [task |-> p.gives[j].task,
                                index |-> p.gives[j].index]],
                  !.p = p]
    /\ pend' = [t \in Waiters |->
                  IF t \in Whole(p) /\ t \in p.nw
                  THEN [pend[t] EXCEPT ![p.event] = @ + 1]
                  ELSE pend[t]]
    /\ UNCHANGED <<events, notify, wait, unsub, prevk, since, calls, ntasks>>

\* ------------------------------------------------------------------------
\* wait: ulTaskNotifyTakeIndexed(event, pdTRUE, timeout) != 0
\* ------------------------------------------------------------------------
TakeIndex_0(event) == 0

TakeExit_decrement(value) == IF value # 0 THEN value - 1 ELSE value

WaitResult_ge(value) == IF value >= 0 THEN "true" ELSE "false"

\* the notification index the take is made on
TakeIndex(event) == event

\* value left at the index when the take returns (xClearCountOnExit = pdTRUE)
TakeExit(value) == IF value # 0 THEN 0 ELSE value

WaitResult(value) == IF value # 0 THEN "true" ELSE "false"

WaitReturns(self, w) ==
    LET value == notify[self][w.index] IN
    /\ notify' = [notify EXCEPT ![self][w.index] = TakeExit(value)]
    /\ wait' = [wait EXCEPT ![self] = Running]
    /\ last' = [NoCall EXCEPT !.op = "wait", !.event = w.event, !.task = self,
                              !.result = WaitResult(value), !.w = w]

event_bus_wait(self, event, timeout) ==
    LET w == [Running EXCEPT !.event = event, !.index = TakeIndex(event),
                             !.timeout = timeout,
                             !.pending = notify[self][event],
                             !.k = pend[self][event],
                             !.prevk = prevk[self][event],
                             !.since = since[self][event],
                             !.pushed = InPushOn(proc[Producer], event),
                             !.sub = Subscribed(events, event, self)]
    IN
    /\ IsRunning(self)
    /\ ~InCall(self)
    /\ pend' = [pend EXCEPT ![self][event] = 0]
    /\ prevk' = [prevk EXCEPT ![self][event] = pend[self][event]]
    /\ since' = [since EXCEPT ![self][event] =
                    InPushOn(proc[Producer], event)]
    /\ proc' = [proc EXCEPT ![Producer].nw =
                    IF InPushOn(proc[Producer], event)
                    THEN @ \ {self} ELSE @]
    /\ IF notify[self][TakeIndex(event)] = 0 /\ timeout > 0
       THEN /\ wait' = [wait EXCEPT ![self] = [w EXCEPT !.st = "blocked"]]
            /\ UNCHANGED <<notify, last>>
       ELSE WaitReturns(self, [w EXCEPT !.st = "woken"])
    /\ UNCHANGED <<events, unsub>>

\* the task made ready by a give or by the timeout runs and the take returns
wait_return(self) ==
    /\ wait[self].st = "woken"
    /\ WaitReturns(self, wait[self])
    /\ UNCHANGED <<events, unsub, pend, prevk, since, calls, ntasks, proc>>

\* one tick: a suspended task whose timeout has elapsed becomes ready
Tick ==
    /\ \E t \in Waiters : wait[t].st = "blocked"
    /\ wait' = [t \in Waiters |->
                 LET w == wait[t] IN
                 IF w.st = "blocked"
                 THEN [w EXCEPT !.elapsed = @ + 1,
                                !.st = IF w.elapsed + 1 >= w.timeout
                                       THEN "woken" ELSE "blocked"]
                 ELSE w]
    /\ UNCHANGED <<events, notify, last, unsub, pend, prevk, since, calls,
                   ntasks, proc>>

\* ------------------------------------------------------------------------
Init ==
    /\ events = [e \in AllEvents |-> [i \in Slots |-> NULL]]
    /\ notify = [t \in Tasks |-> [e \in AllEvents |-> 0]]
    /\ wait = [t \in Waiters |-> Running]
    /\ last = NoCall
    /\ unsub = [e \in Events |-> [t \in Tasks |-> "no"]]
    /\ pend = [t \in Waiters |-> [e \in Events |-> 0]]
    /\ prevk = [t \in Waiters |-> [e \in Events |-> 0]]
    /\ since = [t \in Waiters |-> [e \in Events |-> FALSE]]
    /\ calls = 0
    /\ ntasks = 0
    /\ proc = [c \in Callers |-> Idle]

\* one API call out of a budget of max calls
Call(max, A) ==
    /\ calls < max
    /\ A
    /\ calls' = calls + 1
    /\ UNCHANGED ntasks

\* as Call; task handles are numbered in the order of their first appearance
CallNew(max, h, A) ==
    /\ calls < max
    /\ h <= ntasks + 1
    /\ A
    /\ calls' = calls + 1
    /\ ntasks' = IF h > ntasks THEN h ELSE ntasks

\* the steps of a push in progress
PushSteps == push_test \/ push_load \/ push_give \/ push_yield

\* the API as called by the tasks of the set units, on their own handles and
\* on each other's, and by a producer
Api(max, units) ==
    \/ \E e \in Events, h \in units :
          CallNew(max, h, event_bus_subscribe_ex(e, h))
    \/ \E e \in Events, h \in units :
          CallNew(max, h, event_bus_unsubscribe_ex(e, h))
    \/ \E e \in Events, t \in units :
          CallNew(max, t, event_bus_subscribe(t, e))
    \/ \E e \in Events, t \in units :
          CallNew(max, t, event_bus_unsubscribe(t, e))
    \/ \E e \in Events : Call(max, push_call(e))
    \/ \E e \in Events, t \in units, to \in Timeouts :
          CallNew(max, t, event_bus_wait(t, e, to))

\* the scheduler runs a task made ready, and time passes
Sched ==
    \/ \E t \in Waiters : wait_return(t)
    \/ Tick

Next == Api(MaxCalls, Waiters) \/ PushSteps \/ Sched

Spec == Init /\ [][Next]_vars

\* the producer task makes every call itself, one after the other:
\* subscriptions up to and beyond the capacity of an event, and one push
NextCap ==
    \/ \E e \in Events, h \in CapTasks :
          CallNew(MaxCapCalls, h,
                  ~InCall(Producer) /\ event_bus_subscribe_ex(e, h))
    \/ \E e \in Events :
          Call(MaxCapCalls, proc[Producer].op = "idle" /\ push_call(e))
    \/ PushSteps

SpecCap == Init /\ [][NextCap]_vars

\* one task and a producer; a task that can run is run again and the tick
\* interrupt keeps firing
NextLive == Api(MaxLiveCalls, {1}) \/ PushSteps \/ Sched

SpecLive ==
    /\ Init /\ [][NextLive]_vars
    /\ WF_vars(Tick)
    /\ \A t \in Waiters : WF_vars(wait_return(t))
    /\ WF_vars(push_test) /\ WF_vars(push_load) /\ WF_vars(push_give)
    /\ WF_vars(push_yield)

\* one task, which subscribes, unsubscribes and waits, and a producer, in
\* longer behaviours
NextOne ==
    \/ \E e \in Events : CallNew(MaxOneCalls, 1, event_bus_subscribe(1, e))
    \/ \E e \in Events : CallNew(MaxOneCalls, 1, event_bus_unsubscribe(1, e))
    \/ \E e \in Events : Call(MaxOneCalls, push_call(e))
    \/ \E e \in Events, to \in Timeouts :
          CallNew(MaxOneCalls, 1, event_bus_wait(1, e, to))
    \/ PushSteps
    \/ Sched

SpecOne == Init /\ [][NextOne]_vars

\* the producer task makes every call itself, one after the other: the _ex
\* calls with any handle value, the null handle included, and pushes
NextNull ==
    \/ \E e \in Events, h \in NullTasks :
          CallNew(MaxNullCalls, h,
                  ~InCall(Producer) /\ event_bus_subscribe_ex(e, h))
    \/ \E e \in Events, h \in NullTasks :
          CallNew(MaxNullCalls, h,
                  ~InCall(Producer) /\ event_bus_unsubscribe_ex(e, h))
    \/ \E e \in Events : Call(MaxNullCalls, push_call(e))
    \/ PushSteps

SpecNull == Init /\ [][NextNull]_vars

\* the _ex calls, made by other tasks while the producer pushes; no task
\* waits
NextTab ==
    \/ \E e \in Events, h \in Waiters :
          CallNew(MaxTabCalls, h, event_bus_subscribe_ex(e, h))
    \/ \E e \in Events, h \in Waiters :
          CallNew(MaxTabCalls, h, event_bus_unsubscribe_ex(e, h))
    \/ \E e \in Events : Call(MaxTabCalls, push_call(e))
    \/ PushSteps

SpecTab == Init /\ [][NextTab]_vars

\* subscriptions and unsubscriptions on one event, long enough to fill the
\* event, free a slot, fill it again and subscribe once more
NextRefill ==
    \/ \E h \in CapTasks :
          CallNew(MaxRefillCalls, h,
                  event_bus_subscribe_ex(EVENT_BUS_FRAME_BEGIN_SYNC, h))
    \/ \E h \in CapTasks :
          CallNew(MaxRefillCalls, h,
                  event_bus_unsubscribe_ex(EVENT_BUS_FRAME_BEGIN_SYNC, h))

SpecRefill == Init /\ [][NextRefill]_vars

\* ------------------------------------------------------------------------
\* subscribe and unsubscribe step by step: one step is one access to the
\* table, and a step of another task may come between any two. Each task
\* subscribes and unsubscribes its own handle (event_bus_subscribe,
\* event_bus_unsubscribe).
\* ------------------------------------------------------------------------
modify_call(self, kind, event, old, new) ==
    /\ IsRunning(self)
    /\ ~InCall(self)
    /\ proc' = [proc EXCEPT ![self] =
                   [Idle EXCEPT !.op = "test", !.kind = kind,
                                !.event = event, !.old = old, !.new = new]]
    /\ UNCHANGED <<events, notify, wait, last, unsub, pend, prevk, since>>

subscribe_call(self, event) ==
    modify_call(self, "subscribe", event, NULL, self)

unsubscribe_call(self, event) ==
    modify_call(self, "unsubscribe", event, self, NULL)

\* event_bus_modify_value returns evth, having found a slot or not; the
\* assertion of subscribe is evaluated
modify_return(self, p, evth, found) ==
    /\ last' = [NoCall EXCEPT
                  !.op = IF p.kind = "subscribe"
                         THEN "subscribe_ex" ELSE "unsubscribe_ex",
                  !.event = p.event, !.task = self, !.evth = evth,
                  !.found = found,
                  !.asserted = p.kind = "subscribe" /\ ASSERT_POINTER(evth)]
    /\ unsub' = IF p.kind = "subscribe"
                THEN UnsubAfterSubscribe(p.event, self, evth)
                ELSE UnsubAfterUnsubscribe(p.event, self)
    /\ UNCHANGED <<notify, wait, pend, prevk, since, calls, ntasks>>

\* if (events[event][i] == old): one read of the slot
modify_test(self) ==
    LET p == proc[self] IN
    /\ p.op = "test"
    /\ IsRunning(self)
    /\ IF events[p.event][p.i] = p.old
       THEN /\ proc' = [proc EXCEPT ![self].op = "write"]
            /\ UNCHANGED <<events, notify, wait, last, unsub, pend, prevk,
                           since, calls, ntasks>>
       ELSE IF p.i + 1 < EVENT_LIST_DEPHT
       THEN /\ proc' = [proc EXCEPT ![self].i = p.i + 1]
            /\ UNCHANGED <<events, notify, wait, last, unsub, pend, prevk,
                           since, calls, ntasks>>
       ELSE /\ proc' = [proc EXCEPT ![self].op = "done", ![self].ret = NULL]
            /\ modify_return(self, p, NULL, FALSE)
            /\ UNCHANGED events

\* events[event][i] = new; return new;
modify_write(self) ==
    LET p == proc[self] IN
    /\ p.op = "write"
    /\ IsRunning(self)
    /\ events' = [events EXCEPT ![p.event][p.i] = p.new]
    /\ proc' = [c \in Callers |->
                 IF c = self
                 THEN [p EXCEPT !.op = "done", !.ret = p.new]
                 ELSE Observe(proc[c], p.event,
                              [events EXCEPT ![p.event][p.i] = p.new])]
    /\ modify_return(self, p, p.new, TRUE)

NextConc ==
    \/ \E t \in Waiters, e \in Events :
          Call(MaxConcCalls, subscribe_call(t, e))
    \/ \E t \in Waiters, e \in Events :
          Call(MaxConcCalls, unsubscribe_call(t, e))
    \/ \E e \in Events : Call(MaxConcCalls, push_call(e))
    \/ \E t \in Waiters, e \in Events, to \in Timeouts :
          Call(MaxConcCalls, event_bus_wait(t, e, to))
    \/ \E t \in Waiters : modify_test(t)
    \/ \E t \in Waiters : modify_write(t)
    \/ PushSteps
    \/ Sched

\* every task that can run is run again, and the tick interrupt keeps firing
SpecConc ==
    /\ Init /\ [][NextConc]_vars
    /\ WF_vars(push_test) /\ WF_vars(push_load) /\ WF_vars(push_give)
    /\ WF_vars(push_yield)
    /\ \A t \in Waiters :
          WF_vars(modify_test(t)) /\ WF_vars(modify_write(t))
             /\ WF_vars(wait_return(t))
    /\ WF_vars(Tick)

\* ------------------------------------------------------------------------
\* Properties
\* ------------------------------------------------------------------------
Range(seq) == {seq[j] : j \in 1..Len(seq)}
RowFull(tab, event) == \A i \in Slots : tab[event][i] # NULL
RowSlotsOf(row, h) == Cardinality({i \in Slots : row[i] = h})
\* the step is a call of the API function op that returns in this step (not
\* a tick, not the begin or a step of a push, not a wait that suspends its
\* caller, not the return of that wait)
IsCall(op) ==
    /\ calls' = calls + 1
    /\ last'.op = op
    /\ proc'[Producer].op = proc[Producer].op
    /\ \A t \in Waiters : wait'[t].st = "blocked" => wait[t].st = "blocked"
\* the step is a step of the push in progress
PushStep ==
    /\ InCall(Producer)
    /\ \/ proc'[Producer].op # proc[Producer].op
       \/ proc'[Producer].i # proc[Producer].i
\* the step is the last step of a push: the push returns
PushReturns ==
    /\ InCall(Producer)
    /\ proc'[Producer].op = "done"
\* the wait of the task returns in the step
WaitReturnsStep(t) ==
    \/ wait[t].st = "woken" /\ wait'[t].st = "running"
    \/ IsCall("wait") /\ last'.task = t

\* C1: one push(E), with no slot of E written while it runs, signals, on
\* the channel of E, exactly the identities subscribed to E: nobody outside
\* that set and nobody on another channel. Every give of a push adds one to
\* the value of its handle at the index of E and changes no other value.
C1_PushSignalsExactlySubscribers ==
    [][/\ PushReturns /\ ~Touched(last'.p) =>
            LET E == last'.event
                S == Subscribers(events, E)
            IN {<<g.task, g.index>> : g \in Range(last'.gives)} = S \X {E}
       /\ PushStep =>
            \A t \in Tasks, e \in AllEvents :
               notify'[t][e] # notify[t][e] =>
                  /\ proc[Producer].op = "give"
                  /\ t = proc[Producer].arg
                  /\ e = proc[Producer].event
                  /\ notify'[t][e] = notify[t][e] + 1
      ]_vars

\* a push of an event with D distinct subscribers while another event has a
\* subscriber of its own, which stays unsignaled
C1_Witness ==
    /\ last.op = "push"
    /\ Cardinality(Subscribers(events, last.event)) = EVENT_LIST_DEPHT
    /\ \A t \in Subscribers(events, last.event) : notify[t][last.event] >= 1
    /\ \E e \in Events \ {last.event} :
         \E t \in Subscribers(events, e) \ Subscribers(events, last.event) :
            \A x \in AllEvents : notify[t][x] = 0

\* C2 as stated: in every table that a sequence of subscribe_ex and
\* unsubscribe_ex calls reaches, one push(E), with no slot of E written
\* while it runs, sends exactly one signal to each unit subscribed to E at
\* the time of the call.
C2_ExactlyOneSignalPerSubscriber ==
    last.op = "push" /\ ~Touched(last.p) =>
       \A t \in Range([j \in 1..EVENT_LIST_DEPHT |-> last.p.row[j - 1]])
                  \ {NULL} :
          Given(last.gives, t, last.event) = 1

\* C2 amended: a push(E) during which no slot of E is written sends each
\* unit one signal per slot of E that holds it at the time of the call:
\* exactly one to a unit subscribed once, blocked in wait or not, none to a
\* unit that holds no slot of E. Every push makes at most one give per slot,
\* in ascending slot order, on the channel of E, with a value the slot held
\* during the push.
C2_OneSignalPerSlot ==
    last.op = "push" =>
       /\ ~Touched(last.p) =>
            \A t \in Tasks :
               Given(last.gives, t, last.event) = RowSlotsOf(last.p.row, t)
       /\ \A g \in Range(last.gives) : g.index = last.event
       /\ \A j \in 1..Len(last.p.gives) :
            /\ last.p.gives[j].task \in last.p.occ[last.p.gives[j].slot]
            /\ \A k \in 1..Len(last.p.gives) :
                  j < k => last.p.gives[j].slot < last.p.gives[k].slot

\* a push that found its subscriber suspended in wait and made it ready
C2_Witness ==
    /\ last.op = "push"
    /\ ~Touched(last.p)
    /\ \E t \in Waiters :
         /\ SlotsOf(events, last.event, t) = 1
         /\ wait[t].st = "woken" /\ wait[t].signaled
         /\ wait[t].elapsed < wait[t].timeout
         /\ Given(last.gives, t, last.event) = 1

\* C3 as stated: after unsubscribe(E, U) has returned and until U is
\* subscribed to E again no push(E) signals U, whatever preceded the call
\* (stated for the pushes during which no slot of E is written).
C3_NoSignalAfterUnsubscribe ==
    ~Touched(proc[Producer]) =>
       \A t \in Tasks :
          proc[Producer].un0[t] # "no" =>
             Given(proc[Producer].gives, t, proc[Producer].event) = 0

\* C3 amended: after an unsubscribe(E, U) that found U in at most one slot
\* of E, and until U is subscribed to E again, U holds no slot of E, and a
\* push(E) that begins then and during which U is not subscribed again does
\* not signal U.
C3_NoSignalAfterSingleUnsubscribe ==
    /\ \A e \in Events, t \in Tasks :
          unsub[e][t] = "single" => ~Subscribed(events, e, t)
    /\ \A t \in Tasks :
          proc[Producer].un0[t] = "single" /\ Absent(proc[Producer], t) =>
             Given(proc[Producer].gives, t, proc[Producer].event) = 0

\* a push after one of two subscribers left: its slot is free again, and the
\* push signals the subscriber that stayed
C3_Witness ==
    /\ last.op = "push"
    /\ \E t, u \in Waiters :
         /\ t # u
         /\ last.p.un0[t] = "single"
         /\ Absent(last.p, t)
         /\ last.p.row[0] = NULL
         /\ last.p.row[1] = u
         /\ last.gives = <<[task |-> u, index |-> last.event]>>

\* C4: a subscribe to an event whose D slots are all occupied fires the
\* assertion and leaves the table unchanged; a subscribe to an event with a
\* free slot does not fire it and adds the identity without disturbing the
\* others; a push signals every unit of a full event.
C4_CapacityBoundary ==
    [][/\ IsCall("subscribe_ex") =>
            LET E == last'.event
                U == last'.task
            IN IF RowFull(events, E)
               THEN last'.asserted /\ events' = events
               ELSE /\ ~last'.asserted
                    /\ SlotsOf(events', E, U) = SlotsOf(events, E, U) + 1
                    /\ \A t \in Tasks \ {U} :
                         SlotsOf(events', E, t) = SlotsOf(events, E, t)
                    /\ \A e \in AllEvents \ {E} : events'[e] = events[e]
       /\ PushReturns /\ ~Touched(last'.p) /\ RowFull(events, last'.event) =>
            \A i \in Slots :
               /\ Given(last'.gives, events[last'.event][i], last'.event) >= 1
               /\ notify'[events[last'.event][i]][last'.event] >= 1
      ]_vars

\* D distinct units hold the slots of the event, a further identity has been
\* turned down, and the push that follows signals the D units
C4_Witness ==
    /\ last.op = "push"
    /\ Cardinality(Subscribers(events, last.event)) = EVENT_LIST_DEPHT
    /\ ntasks = EVENT_LIST_DEPHT + 1
    /\ \A e \in AllEvents : ~Subscribed(events, e, ntasks)
    /\ \A t \in Subscribers(events, last.event) : notify[t][last.event] = 1

\* C5: unsubscribe(E, U) of an identity that holds no slot of E changes no
\* slot of any event, no notification value, and fires no assertion; after
\* an unsubscribe that found U in at most one slot U is absent, so that a
\* second unsubscribe in a row is that case; the subscribers of E are still
\* signaled by a push.
C5_UnsubscribeAbsentIsNoOp ==
    [][/\ IsCall("unsubscribe_ex") /\ last'.task # NULL
            /\ ~Subscribed(events, last'.event, last'.task) =>
               /\ events' = events
               /\ notify' = notify
               /\ ~last'.asserted
               /\ ~last'.found
       /\ IsCall("unsubscribe_ex") /\ last'.task # NULL
            /\ SlotsOf(events, last'.event, last'.task) <= 1 =>
               /\ ~Subscribed(events', last'.event, last'.task)
               /\ ~last'.asserted
       /\ PushReturns /\ ~Touched(last'.p)
            /\ last.op = "unsubscribe_ex" /\ ~last.found =>
               \A t \in Subscribers(events, last'.event) :
                  Given(last'.gives, t, last'.event) >= 1
      ]_vars

\* an unsubscribe of an absent identity while both events have subscribers
C5_Witness ==
    /\ last.op = "unsubscribe_ex"
    /\ last.task # NULL
    /\ ~last.found
    /\ unsub[last.event][last.task] = "single"
    /\ Subscribers(events, last.event) # {}
    /\ \E e \in Events \ {last.event} : Subscribers(events, e) # {}

\* C6 as stated: unsubscribe(E, U) returns whether a slot was cleared.
C6_ReturnsWhetherCleared ==
    last.op = "unsubscribe_ex" /\ last.task # NULL =>
       /\ last.result = "true" <=> last.found
       /\ last.result = "false" <=> ~last.found

\* C6 amended: unsubscribe(E, U) returns nothing; the value it gets from
\* event_bus_modify_value is NULL both when U was present (a slot was
\* cleared) and when U was absent, so the caller observes no difference.
C6_UnsubscribeReturnsNothing ==
    last.op = "unsubscribe_ex" =>
       /\ last.result = "void"
       /\ last.evth = NULL
       /\ ~last.asserted
       /\ (last.task # NULL => ~Subscribed(events, last.event, last.task)
                                  \/ unsub[last.event][last.task] = "multi")

\* an unsubscribe that cleared a slot
C6_Witness ==
    /\ last.op = "unsubscribe_ex"
    /\ last.task # NULL
    /\ last.found
    /\ ~Subscribed(events, last.event, last.task)
    /\ last.result = "void"

\* C7: a wait(E, t) of a unit for which a push(E) ran while it held its
\* slot of E and was not waiting, with no wait(E) of the unit since,
\* returns success with no tick of its timeout elapsed.
C7_LatchedSignal ==
    last.op = "wait" /\ last.w.k >= 1 =>
       last.result = "true" /\ last.w.elapsed = 0

\* such a wait with a non-zero timeout
C7_Witness ==
    /\ last.op = "wait"
    /\ last.w.k >= 1
    /\ last.w.sub
    /\ last.w.timeout = MaxTimeout
    /\ last.result = "true"

\* C8: a wait(E, t) of a subscribed unit with no pending signal and no
\* push(E) in progress at the call or begun after it returns failure, after
\* t ticks have elapsed.
C8_TimeoutWithoutPush ==
    last.op = "wait" /\ last.w.sub /\ last.w.pending = 0 /\ ~last.w.pushed =>
       /\ last.result = "false"
       /\ last.w.elapsed >= last.w.timeout

\* such a wait that was suspended for the whole of a non-zero timeout
C8_Witness ==
    /\ last.op = "wait"
    /\ last.w.sub /\ last.w.pending = 0 /\ ~last.w.pushed
    /\ last.w.timeout = MaxTimeout
    /\ last.w.elapsed = MaxTimeout
    /\ last.result = "false"

\* C9: after k >= 1 pushes of E with no wait(E) of the subscribed unit in
\* between, its first wait(E) returns success and its second wait(E), with
\* no further push(E), returns failure; a wait leaves no pending signal.
C9_SignalsDoNotAccumulate ==
    /\ [](last.op = "wait" =>
            /\ last.w.k >= 1 => last.result = "true"
            /\ last.w.prevk >= 1 /\ ~last.w.since /\ ~last.w.pushed =>
                  last.result = "false")
    /\ [][\A t \in Waiters :
             WaitReturnsStep(t) => notify'[t][last'.event] = 0]_vars

\* the second wait after two pushes were met by the first one
C9_Witness ==
    /\ last.op = "wait"
    /\ last.w.sub
    /\ last.w.prevk >= 2
    /\ ~last.w.since
    /\ ~last.w.pushed
    /\ last.result = "false"

\* C10: a wait(E, t) of a unit that a push(E) gives to while the unit is
\* inside the wait returns success; every wait call returns.
C10_NoLostWakeup ==
    /\ [](last.op = "wait" /\ last.w.signaled => last.result = "true")
    /\ \A t \in Waiters : (wait[t].st # "running") ~> (wait[t].st = "running")

\* a wait of a subscribed unit that was suspended for a tick, then signaled,
\* and returned success
C10_Witness ==
    /\ last.op = "wait"
    /\ last.w.sub
    /\ last.w.signaled
    /\ last.w.elapsed >= 1
    /\ last.w.elapsed < last.w.timeout
    /\ last.result = "true"

\* C11: a push is never kept waiting: whenever it is inside its loop its
\* next step can be taken, it tests every slot once in ascending order and
\* then returns. A task becomes suspended only in a step that is its own
\* call of wait, and that step suspends no other task.
C11_PushNeverBlocks ==
    /\ [](proc[Producer].op = "scan" => ENABLED push_test)
    /\ [](proc[Producer].op = "load" => ENABLED push_load)
    /\ [](proc[Producer].op = "give" => ENABLED push_give)
    /\ [](proc[Producer].op = "yield" => ENABLED push_yield)
    /\ [](/\ proc[Producer].i < EVENT_LIST_DEPHT
          /\ \A j \in 1..Len(proc[Producer].gives) :
                /\ proc[Producer].gives[j].slot <= proc[Producer].i
                /\ \A k \in 1..Len(proc[Producer].gives) :
                      j < k => proc[Producer].gives[j].slot
                                  < proc[Producer].gives[k].slot)
    /\ InCall(Producer) ~> proc[Producer].op = "done"
    /\ [][\A t \in Waiters :
             wait'[t].st = "blocked" /\ wait[t].st # "blocked" =>
                /\ calls' = calls + 1
                /\ ~InCall(t)
                /\ \A u \in Callers \ {t} : proc'[u].op = proc[u].op
                /\ \A u \in Waiters \ {t} : wait'[u] = wait[u]
         ]_vars

\* C12 as stated: in every reachable state an identity appears in at most
\* one slot of the slot sequence of any one event.
C12_AtMostOncePerEvent ==
    \A e \in Events, t \in Tasks : SlotsOf(events, e, t) <= 1

\* C12 amended: an identity appears in at most one slot of an event as long
\* as subscribe is called only for identities that hold no slot of the
\* event; a subscribe of an identity that is present is not rejected and,
\* with a free slot, puts it into one more slot.
C12_AtMostOnceUnlessResubscribed ==
    [][LET dup == /\ IsCall("subscribe_ex")
                  /\ last'.task # NULL
                  /\ Subscribed(events, last'.event, last'.task)
       IN /\ (\A e \in Events, t \in Tasks : SlotsOf(events, e, t) <= 1) /\ ~dup
               => \A e \in Events, t \in Tasks : SlotsOf(events', e, t) <= 1
          /\ dup /\ ~RowFull(events, last'.event)
               => SlotsOf(events', last'.event, last'.task)
                     = SlotsOf(events, last'.event, last'.task) + 1
      ]_vars

\* two units share an event, one of them after leaving and coming back, and
\* each holds one slot
C12_Witness ==
    /\ last.op = "subscribe_ex"
    /\ ~last.asserted
    /\ \A e \in Events, t \in Tasks : SlotsOf(events, e, t) <= 1
    /\ Cardinality(Subscribers(events, last.event)) = 2
    /\ events[last.event][0] = last.task
    /\ events[last.event][1] # NULL

\* C16: every slot is empty at the start; a slot turns from empty to
\* occupied only in a subscribe of the identity it then holds, and changes
\* from occupied only to empty and only in an unsubscribe of the identity
\* it held; no step of a push and no step of a wait changes the table.
C16_OnlySubscribeAndUnsubscribeWrite ==
    /\ \A e \in AllEvents, i \in Slots : events[e][i] = NULL
    /\ [][/\ \A e \in AllEvents, i \in Slots :
               events'[e][i] # events[e][i] =>
                  \/ /\ events[e][i] = NULL
                     /\ IsCall("subscribe_ex")
                     /\ last'.event = e /\ last'.task = events'[e][i]
                  \/ /\ events'[e][i] = NULL
                     /\ IsCall("unsubscribe_ex")
                     /\ last'.event = e /\ last'.task = events[e][i]
          /\ PushStep \/ proc'[Producer].op # proc[Producer].op
                \/ wait' # wait
               => events' = events
         ]_vars

\* a wait that returned success after a push, with its unit still in the table
C16_Witness ==
    /\ last.op = "wait"
    /\ last.result = "true"
    /\ last.w.pushed
    /\ Subscribed(events, last.event, last.task)

\* C17: a slot that holds an identity keeps holding it in every step that
\* is not the write of an unsubscribe of that identity for that event: no
\* other subscribe, unsubscribe, push or wait, of any task and on any event,
\* moves or overwrites it.
C17_StablePositions ==
    [][\A e \in AllEvents, i \in Slots :
          events[e][i] # NULL /\ events'[e][i] # events[e][i] =>
             /\ events'[e][i] = NULL
             /\ last'.op = "unsubscribe_ex"
             /\ last'.found
             /\ last'.event = e
             /\ last'.task = events[e][i]
      ]_vars

\* C19: subscribe and unsubscribe change no notification value, and the
\* result of a wait is decided by the value at its index alone: a signal
\* latched while the unit was subscribed makes its next wait return success
\* at once, also when the unit holds no slot of the event any more.
C19_PendingSignalOutlivesSubscription ==
    /\ [][IsCall("subscribe_ex") \/ IsCall("unsubscribe_ex")
             => notify' = notify]_vars
    /\ [](last.op = "wait" =>
            /\ last.w.k >= 1 => last.result = "true" /\ last.w.elapsed = 0
            /\ ~last.w.pushed =>
                  (last.result = "true" <=> last.w.pending >= 1))

\* a wait of an unsubscribed unit that returns success on a latched signal
C19_Witness ==
    /\ last.op = "wait"
    /\ last.w.k >= 1
    /\ ~last.w.sub
    /\ unsub[last.event][last.task] = "single"
    /\ last.result = "true"

\* C20: subscribe_ex with the null handle always ends in the assertion
\* failure, with empty slots as well as without, and leaves the table as it
\* was; unsubscribe_ex with the null handle raises nothing and leaves the
\* table as it was.
C20_NullHandle ==
    [][/\ IsCall("subscribe_ex") /\ last'.task = NULL
            => last'.asserted /\ events' = events
       /\ IsCall("unsubscribe_ex") /\ last'.task = NULL
            => ~last'.asserted /\ events' = events
      ]_vars

\* a null subscribe that failed on an event with a subscriber and empty slots
C20_Witness ==
    /\ last.op = "subscribe_ex"
    /\ last.task = NULL
    /\ last.asserted
    /\ ~RowFull(events, last.event)
    /\ Subscribers(events, last.event) # {}

\* C15: a subscribe writes its identity into the lowest-index empty slot of
\* the event and changes nothing else; after an unsubscribe has freed one
\* slot of a full event, the next subscribe succeeds and its identity holds
\* exactly the freed slot; a subscribe to a full event fails with the
\* assertion and changes nothing.
C15_LowestEmptySlotAndRefill ==
    [][IsCall("subscribe_ex") /\ last'.task # NULL =>
         LET e == last'.event
             free == {i \in Slots : events[e][i] = NULL}
         IN
         /\ free = {} => last'.asserted /\ events' = events
         /\ free # {} =>
               LET m == CHOOSE i \in free : \A j \in free : i <= j IN
               /\ ~last'.asserted
               /\ events' = [events EXCEPT ![e][m] = last'.task]
         /\ (/\ last.op = "unsubscribe_ex" /\ last.found /\ last.event = e
             /\ Cardinality(free) = 1)
               => /\ \A i \in free : events'[e][i] = last'.task
                  /\ RowFull(events', e)
      ]_vars

\* a full event whose freed inner slot was taken by a later identity, and a
\* further subscribe that failed
C15_Witness ==
    /\ last.op = "subscribe_ex"
    /\ last.asserted
    /\ RowFull(events, last.event)
    /\ \E i \in Slots : /\ i < EVENT_LIST_DEPHT - 1
                         /\ events[last.event][i] > EVENT_LIST_DEPHT

\* the latest call of task u is a subscribe to the event that has returned
\* its handle, without the assertion
SubscribeReturned(u, event) ==
    /\ proc[u].op = "done"
    /\ proc[u].kind = "subscribe"
    /\ proc[u].event = event
    /\ proc[u].ret = u

\* C13: with every task subscribing and unsubscribing only its own handle,
\* two tasks never write the same slot, and two tasks whose subscribes to an
\* event with at least two empty slots have both returned are both present.
C13_ConcurrentSubscribesBothPresent ==
    \A e \in Events, u \in Waiters, v \in Waiters :
       u # v /\ SubscribeReturned(u, e) /\ SubscribeReturned(v, e)
          => /\ proc[u].i # proc[v].i
             /\ Subscribed(events, e, u)
             /\ Subscribed(events, e, v)

\* C18: a push never passes NULL to the notification primitive: the handle
\* it gives to is the non-empty value its test of the slot has seen.
C18_PushNeverSignalsNull ==
    \A j \in 1..Len(proc[Producer].gives) :
       /\ proc[Producer].gives[j].task # NULL
       /\ proc[Producer].gives[j].task = proc[Producer].gives[j].seen

\* C14: a push that runs while tasks subscribe and unsubscribe gives only to
\* handles that held the slot at some moment of the push, and gives exactly
\* once to every task that held one slot from its beginning to its end.
C14_PushInterleavedIsBenign ==
    LET p == proc[Producer] IN
    /\ \A j \in 1..Len(p.gives) :
          p.gives[j].task \in p.occ[p.gives[j].slot] \ {NULL}
    /\ p.kind = "push" /\ p.op = "done" =>
          \A u \in Whole(p) :
             Cardinality({j \in Slots : u \in p.occ[j]}) = 1 =>
                Given(p.gives, u, p.event) = 1
====
